---------------------------- MODULE Spec2Model ----------------------------
(***************************************************************************)
(* Model of src/windows/network.rs: the registry of hardware network       *)
(* interfaces (NetworksInner) and its refresh algorithm, with the counter  *)
(* accessors of NetworkDataInner.                                          *)
(*                                                                         *)
(* One call of refresh is one step of the model.  The platform's answer to *)
(* GetIfTable2 (an error, or a table of MIB_IF_ROW2 rows) and the answer   *)
(* of the address collaborator are the inputs of the step.                 *)
(***************************************************************************)
EXTENDS Integers, Sequences, FiniteSets, TLC

(***************************************************************************)
(* Bounds of the model.                                                    *)
(***************************************************************************)
\* u64::MAX, scaled down: TLC's integers are 32 bits wide.  Every u64 of the
\* model lies in 0..U64Max and saturates there.
U64Max == 65535
\* NumEntries of a table is at most MaxEntries.
MaxEntries == 2
\* The number of refresh calls of a behaviour is at most MaxCalls.
MaxCalls == 2
\* Length of the Alias buffer of a row (IF_MAX_STRING_SIZE + 1 on the platform).
AliasLen == 2

(***************************************************************************)
(* u64 arithmetic.                                                         *)
(***************************************************************************)
\* As saturating_sub, had the code subtracted with wrap-around.
saturating_sub_Wrapping(a, b) == (a - b) % (U64Max + 1)

saturating_sub(a, b) == IF a >= b THEN a - b ELSE 0

\* As saturating_add, had the code added with wrap-around.
saturating_add_Wrapping(a, b) == (a + b) % (U64Max + 1)

saturating_add(a, b) == IF a > U64Max - b THEN U64Max ELSE a + b

(***************************************************************************)
(* String::from_utf16 on the units of the alias before the first NUL.      *)
(* A String is the sequence of its chars (Unicode scalar values).          *)
(***************************************************************************)
IsHighSurrogate(u) == u >= 55296 /\ u <= 56319
IsLowSurrogate(u) == u >= 56320 /\ u <= 57343

\* pos: the number of units before the first 0 (the whole buffer if none).
RECURSIVE AliasPos(_, _)
AliasPos(alias, pos) ==
    IF pos >= Len(alias) \/ alias[pos + 1] = 0 THEN pos
    ELSE AliasPos(alias, pos + 1)

Utf16Err == [ok |-> FALSE, s |-> <<>>]

RECURSIVE from_utf16(_)
from_utf16(v) ==
    IF v = <<>> THEN [ok |-> TRUE, s |-> <<>>]
    ELSE IF ~IsHighSurrogate(v[1]) /\ ~IsLowSurrogate(v[1])
         THEN LET rest == from_utf16(Tail(v))
              IN  IF rest.ok THEN [ok |-> TRUE, s |-> <<v[1]>> \o rest.s]
                  ELSE Utf16Err
    ELSE IF IsHighSurrogate(v[1]) /\ Len(v) >= 2 /\ IsLowSurrogate(v[2])
         THEN LET rest == from_utf16(Tail(Tail(v)))
                  c == 65536 + (v[1] - 55296) * 1024 + (v[2] - 56320)
              IN  IF rest.ok THEN [ok |-> TRUE, s |-> <<c>> \o rest.s]
                  ELSE Utf16Err
    ELSE Utf16Err

interface_name(row) == from_utf16(SubSeq(row.Alias, 1, AliasPos(row.Alias, 0)))


(***************************************************************************)
(* The platform's interface table: MIB_IF_TABLE2, a sequence of MIB_IF_ROW2 *)
(* rows, of which refresh reads the fields below.                          *)
(***************************************************************************)
MediaConnectStateConnected == 1
MediaConnectStateDisconnected == 2

Guid(d1, d2) ==
    [data1 |-> d1, data2 |-> d2, data3 |-> 0, data4 |-> <<0, 0, 0, 0, 0, 0, 0, d2>>]

\* The units of an alias, NUL-padded to the buffer's length.
Alias(units) == units \o [i \in 1..(AliasLen - Len(units)) |-> 0]

Row(tx, rx, media, phys, guid, alias, c) ==
    [TransmitLinkSpeed |-> tx, ReceiveLinkSpeed |-> rx,
     MediaConnectState |-> media, PhysicalAddressLength |-> phys,
     InterfaceGuid |-> guid, Alias |-> alias, Mtu |-> c.Mtu,
     InOctets |-> c.InOctets, OutOctets |-> c.OutOctets,
     InUcastPkts |-> c.InUcastPkts, InNUcastPkts |-> c.InNUcastPkts,
     OutUcastPkts |-> c.OutUcastPkts, OutNUcastPkts |-> c.OutNUcastPkts,
     InErrors |-> c.InErrors, OutErrors |-> c.OutErrors]

\* Two readings of an adapter's counters.  From the first to the second,
\* InOctets grows, OutOctets and the outgoing packets fall (a counter reset),
\* InErrors stays, and the incoming packets overflow a u64 when summed.
Reading1 ==
    [Mtu |-> 1500, InOctets |-> 1000, OutOctets |-> 2000,
     InUcastPkts |-> 10, InNUcastPkts |-> 3, OutUcastPkts |-> 20, OutNUcastPkts |-> 4,
     InErrors |-> 1, OutErrors |-> 2]
Reading2 ==
    [Mtu |-> 9000, InOctets |-> 1500, OutOctets |-> 1900,
     InUcastPkts |-> U64Max, InNUcastPkts |-> 5, OutUcastPkts |-> 7, OutNUcastPkts |-> 2,
     InErrors |-> 1, OutErrors |-> 6]

AliasE == Alias(<<101>>)              \* "e"
AliasPair == Alias(<<55357, 56832>>)  \* one char outside the BMP, a surrogate pair
AliasBad == Alias(<<55296>>)          \* a lone high surrogate: not UTF-16

\* The rows a table is made of.
Rows ==
    { \* an adapter "e", at two moments
      Row(1, 1, MediaConnectStateConnected, 6, Guid(1, 1), AliasE, Reading1),
      Row(0, 1, MediaConnectStateConnected, 6, Guid(1, 1), AliasE, Reading2),
      \* another adapter, with a name of its own
      Row(1, 0, MediaConnectStateConnected, 6, Guid(1, 2), AliasPair, Reading1),
      \* a third adapter, whose alias is "e" too
      Row(1, 1, MediaConnectStateConnected, 6, Guid(1, 3), AliasE, Reading2),
      \* rows the candidate filter discards, for one reason each
      Row(1, 1, MediaConnectStateConnected, 0, Guid(2, 1), AliasPair, Reading2),
      Row(0, 0, MediaConnectStateConnected, 6, Guid(1, 2), AliasE, Reading2),
      Row(1, 1, MediaConnectStateDisconnected, 6, Guid(1, 3), AliasPair, Reading2),
      \* an adapter whose alias does not decode
      Row(1, 1, MediaConnectStateConnected, 6, Guid(1, 4), AliasBad, Reading1) }

Tables == UNION {[1..n -> Rows] : n \in 0..MaxEntries}

\* What GetIfTable2 returns: an error, or a table.
Acquisitions ==
    {[is_err |-> TRUE, table |-> <<>>]} \cup {[is_err |-> FALSE, table |-> t] : t \in Tables}

(***************************************************************************)
(* NetworkDataInner and its accessors.                                     *)
(***************************************************************************)
MacAddrUNSPECIFIED == 0

received(d) == saturating_sub(d.current_in, d.old_in)
total_received(d) == d.current_in
transmitted(d) == saturating_sub(d.current_out, d.old_out)
total_transmitted(d) == d.current_out
packets_received(d) == saturating_sub(d.packets_in, d.old_packets_in)
total_packets_received(d) == d.packets_in
packets_transmitted(d) == saturating_sub(d.packets_out, d.old_packets_out)
total_packets_transmitted(d) == d.packets_out
errors_on_received(d) == saturating_sub(d.errors_in, d.old_errors_in)
total_errors_on_received(d) == d.errors_in
errors_on_transmitted(d) == saturating_sub(d.errors_out, d.old_errors_out)
total_errors_on_transmitted(d) == d.errors_out
mac_address(d) == d.mac_addr
ip_networks(d) == d.ip_networks
mtu(d) == d.mtu

(***************************************************************************)
(* NetworksInner::refresh.  The registry `interfaces` is a function from   *)
(* names to NetworkDataInner records.                                      *)
(***************************************************************************)
\* As ResetUpdated, had the reset loop been left out.
ResetUpdated_Skipped(ifs) == ifs

\* Reset phase: data.inner.updated = false on every record.
ResetUpdated(ifs) == [n \in DOMAIN ifs |-> [ifs[n] EXCEPT !.updated = FALSE]]

\* As Discarded, without the test of the physical address length.
Discarded_IgnoresPhysicalAddress(row) ==
    \/ (row.TransmitLinkSpeed = 0 /\ row.ReceiveLinkSpeed = 0)
    \/ row.MediaConnectState = MediaConnectStateDisconnected

\* The test that makes the first pass `continue`.
Discarded(row) ==
    \/ (row.TransmitLinkSpeed = 0 /\ row.ReceiveLinkSpeed = 0)
    \/ row.MediaConnectState = MediaConnectStateDisconnected
    \/ row.PhysicalAddressLength = 0

\* The vector `id`: data2, data3 and the eight bytes of data4 (not data1).
GroupId(row) ==
    <<row.InterfaceGuid.data2, row.InterfaceGuid.data3>> \o row.InterfaceGuid.data4

\* groups.entry(id).or_insert(0), then += 1.
CountGroup(groups, id) ==
    IF id \in DOMAIN groups THEN [groups EXCEPT ![id] = @ + 1] ELSE groups @@ (id :> 1)

\* As FirstPass, had the group of a row been counted before the filter.
RECURSIVE FirstPass_CountsBeforeFilter(_, _, _, _)
FirstPass_CountsBeforeFilter(table, i, groups, indexes) ==
    IF i > Len(table) THEN [groups |-> groups, indexes |-> indexes]
    ELSE LET id == GroupId(table[i])
             counted == CountGroup(groups, id)
         IN  IF Discarded(table[i]) \/ counted[id] > 1
             THEN FirstPass_CountsBeforeFilter(table, i + 1, counted, indexes)
             ELSE FirstPass_CountsBeforeFilter(table, i + 1, counted,
                                               Append(indexes, <<i, id>>))

\* First pass, from row i on: counts the groups of the rows that are not
\* discarded, and pushes (i, id) for the first row of each group.
RECURSIVE FirstPass(_, _, _, _)
FirstPass(table, i, groups, indexes) ==
    IF i > Len(table) THEN [groups |-> groups, indexes |-> indexes]
    ELSE IF Discarded(table[i]) THEN FirstPass(table, i + 1, groups, indexes)
    ELSE LET id == GroupId(table[i])
             counted == CountGroup(groups, id)
         IN  IF counted[id] > 1 THEN FirstPass(table, i + 1, counted, indexes)
             ELSE FirstPass(table, i + 1, counted, Append(indexes, <<i, id>>))

\* As InDuplicateGroup, had the second loop not looked the count up again.
InDuplicateGroup_Never(groups, id) == FALSE

\* *groups.get(&id).unwrap_or(&0) > 1
InDuplicateGroup(groups, id) == (IF id \in DOMAIN groups THEN groups[id] ELSE 0) > 1

\* As UpdateInterface, had the Occupied branch also set what the Vacant branch
\* sets: the unspecified MAC address and no IP network.
UpdateInterface_ResetsAddresses(d, row) ==
    [d EXCEPT
       !.old_out = d.current_out, !.current_out = row.OutOctets,
       !.old_in = d.current_in, !.current_in = row.InOctets,
       !.old_packets_in = d.packets_in,
       !.packets_in = saturating_add(row.InUcastPkts, row.InNUcastPkts),
       !.old_packets_out = d.packets_out,
       !.packets_out = saturating_add(row.OutUcastPkts, row.OutNUcastPkts),
       !.old_errors_in = d.errors_in, !.errors_in = row.InErrors,
       !.old_errors_out = d.errors_out, !.errors_out = row.OutErrors,
       !.mac_addr = MacAddrUNSPECIFIED, !.ip_networks = <<>>,
       !.mtu = row.Mtu, !.updated = TRUE]

\* hash_map::Entry::Occupied: six old_and_new!, the mtu, updated = true.
UpdateInterface(d, row) ==
    [d EXCEPT
       !.old_out = d.current_out, !.current_out = row.OutOctets,
       !.old_in = d.current_in, !.current_in = row.InOctets,
       !.old_packets_in = d.packets_in,
       !.packets_in = saturating_add(row.InUcastPkts, row.InNUcastPkts),
       !.old_packets_out = d.packets_out,
       !.packets_out = saturating_add(row.OutUcastPkts, row.OutNUcastPkts),
       !.old_errors_in = d.errors_in, !.errors_in = row.InErrors,
       !.old_errors_out = d.errors_out, !.errors_out = row.OutErrors,
       !.mtu = IF d.mtu # row.Mtu THEN row.Mtu ELSE d.mtu,
       !.updated = TRUE]

\* hash_map::Entry::Vacant: the record that is inserted.
NewInterface(row) ==
    LET packets_in == saturating_add(row.InUcastPkts, row.InNUcastPkts)
        packets_out == saturating_add(row.OutUcastPkts, row.OutNUcastPkts)
    IN  [current_out |-> row.OutOctets, old_out |-> row.OutOctets,
         current_in |-> row.InOctets, old_in |-> row.InOctets,
         packets_in |-> packets_in, old_packets_in |-> packets_in,
         packets_out |-> packets_out, old_packets_out |-> packets_out,
         errors_in |-> row.InErrors, old_errors_in |-> row.InErrors,
         errors_out |-> row.OutErrors, old_errors_out |-> row.OutErrors,
         mac_addr |-> MacAddrUNSPECIFIED, ip_networks |-> <<>>,
         mtu |-> row.Mtu, updated |-> TRUE]

\* match self.interfaces.entry(interface_name)
Upsert(ifs, name, row) ==
    IF name \in DOMAIN ifs THEN [ifs EXCEPT ![name] = UpdateInterface(ifs[name], row)]
    ELSE ifs @@ (name :> NewInterface(row))

\* As UpsertRow, had the alias been decoded lossily: an alias that does not
\* decode gives the name made of the replacement character.
UpsertRow_LossyName(ifs, row, groups, id) ==
    IF InDuplicateGroup(groups, id) THEN ifs
    ELSE LET decoded == interface_name(row)
         IN  Upsert(ifs, IF decoded.ok THEN decoded.s ELSE <<65533>>, row)

\* One turn of the second loop, for the pair (i, id) of `indexes`.
UpsertRow(ifs, row, groups, id) ==
    IF InDuplicateGroup(groups, id) THEN ifs
    ELSE LET decoded == interface_name(row)
         IN  IF ~decoded.ok THEN ifs ELSE Upsert(ifs, decoded.s, row)

\* Second pass, from the k-th pair of `indexes` on.
RECURSIVE SecondPass(_, _, _, _, _)
SecondPass(ifs, table, groups, indexes, k) ==
    IF k > Len(indexes) THEN ifs
    ELSE SecondPass(UpsertRow(ifs, table[indexes[k][1]], groups, indexes[k][2]),
                    table, groups, indexes, k + 1)

\* As UpsertTable, had the two loops been collapsed into one: a row is
\* upserted unless its group has been counted before, in the rows scanned so
\* far.
RECURSIVE SinglePass(_, _, _, _)
SinglePass(ifs, table, i, groups) ==
    IF i > Len(table) THEN ifs
    ELSE IF Discarded(table[i]) THEN SinglePass(ifs, table, i + 1, groups)
    ELSE LET id == GroupId(table[i])
             counted == CountGroup(groups, id)
         IN  SinglePass(UpsertRow(ifs, table[i], counted, id), table, i + 1, counted)
UpsertTable_SinglePass(ifs, table) == SinglePass(ifs, table, 1, <<>>)

\* Both loops over the table.
UpsertTable(ifs, table) ==
    LET first == FirstPass(table, 1, <<>>, <<>>)
    IN  SecondPass(ifs, table, first.groups, first.indexes, 1)

\* As Retain, had the closure not reset the flag of the records it keeps.
Retain_KeepsMarker(ifs) == [n \in {m \in DOMAIN ifs : ifs[m].updated} |-> ifs[n]]

\* self.interfaces.retain(..): drops the records that are not updated, and
\* resets the flag of those it keeps.
Retain(ifs) ==
    [n \in {m \in DOMAIN ifs : ifs[m].updated} |-> [ifs[n] EXCEPT !.updated = FALSE]]

\* As Evict, had retain been called whatever the flag.
Evict_Always(ifs, remove_not_listed_interfaces) == Retain(ifs)

\* The `if remove_not_listed_interfaces` statement.
Evict(ifs, remove_not_listed_interfaces) ==
    IF remove_not_listed_interfaces THEN Retain(ifs) ELSE ifs

(***************************************************************************)
(* crate::network::refresh_networks_addresses, which is not part of this   *)
(* file.  It resolves the addresses of the records it is given: here, the  *)
(* platform reports the MAC address `answer` and `answer` IP networks for  *)
(* every interface (none, and the unspecified MAC, when answer = 0).       *)
(***************************************************************************)
MaxAddrs == 1
AddrAnswers == 0..MaxAddrs

refresh_networks_addresses(ifs, answer) ==
    [n \in DOMAIN ifs |->
        [ifs[n] EXCEPT !.mac_addr = answer, !.ip_networks = [i \in 1..answer |-> i]]]

(***************************************************************************)
(* The whole of refresh: the registry it leaves, the registry after each   *)
(* phase, and the calls it makes, in order.                                *)
(***************************************************************************)
\* As refresh_table, had an alias that does not decode made the second loop
\* `return`, not `continue`: nothing after the loop runs.
refresh_table_ReturnOnBadAlias(ifs, table, remove_not_listed_interfaces, answer) ==
    LET reset == ResetUpdated(ifs)
        first == FirstPass(table, 1, <<>>, <<>>)
        upserted == UpsertTable(reset, table)
        evicted == Evict(upserted, remove_not_listed_interfaces)
        returns == \E k \in 1..Len(first.indexes) :
                      /\ ~InDuplicateGroup(first.groups, first.indexes[k][2])
                      /\ ~interface_name(table[first.indexes[k][1]]).ok
    IN  IF returns
        THEN [interfaces |-> upserted, reset |-> reset, upserted |-> upserted,
              evicted |-> upserted, addressed |-> <<>>, calls |-> <<"GetIfTable2">>]
        ELSE [interfaces |-> refresh_networks_addresses(evicted, answer),
              reset |-> reset, upserted |-> upserted, evicted |-> evicted,
              addressed |-> evicted,
              calls |-> <<"GetIfTable2", "FreeMibTable", "refresh_networks_addresses">>]

\* As refresh_table, had the addresses been refreshed right after the loops,
\* before the table is freed and before retain.
refresh_table_AddressesFirst(ifs, table, remove_not_listed_interfaces, answer) ==
    LET reset == ResetUpdated(ifs)
        upserted == UpsertTable(reset, table)
        evicted == Evict(refresh_networks_addresses(upserted, answer),
                         remove_not_listed_interfaces)
    IN  [interfaces |-> evicted,
         reset |-> reset, upserted |-> upserted, evicted |-> evicted,
         addressed |-> upserted,
         calls |-> <<"GetIfTable2", "refresh_networks_addresses", "FreeMibTable">>]

\* From the reset loop to the end, once GetIfTable2 has handed out `table`.
\* `addressed` is the mapping that refresh_networks_addresses is handed.
refresh_table(ifs, table, remove_not_listed_interfaces, answer) ==
    LET reset == ResetUpdated(ifs)
        upserted == UpsertTable(reset, table)
        evicted == Evict(upserted, remove_not_listed_interfaces)
    IN  [interfaces |-> refresh_networks_addresses(evicted, answer),
         reset |-> reset, upserted |-> upserted, evicted |-> evicted,
         addressed |-> evicted,
         calls |-> <<"GetIfTable2", "FreeMibTable", "refresh_networks_addresses">>]

\* As refresh, had the reset loop come before the call of GetIfTable2.
refresh_ResetBeforeAcquire(ifs, acq, remove_not_listed_interfaces, answer) ==
    IF acq.is_err
    THEN [interfaces |-> ResetUpdated(ifs), reset |-> ResetUpdated(ifs),
          upserted |-> ResetUpdated(ifs), evicted |-> ResetUpdated(ifs),
          addressed |-> <<>>, calls |-> <<"GetIfTable2">>]
    ELSE refresh_table(ifs, acq.table, remove_not_listed_interfaces, answer)

refresh(ifs, acq, remove_not_listed_interfaces, answer) ==
    IF acq.is_err
    THEN [interfaces |-> ifs, reset |-> ifs, upserted |-> ifs, evicted |-> ifs,
          addressed |-> <<>>, calls |-> <<"GetIfTable2">>]
    ELSE refresh_table(ifs, acq.table, remove_not_listed_interfaces, answer)

\* How often `call` occurs in the sequence `calls`.
Count(calls, call) == Cardinality({i \in 1..Len(calls) : calls[i] = call})

(***************************************************************************)
(* NetworksInner::list and what a caller reads through it.                 *)
(***************************************************************************)
\* As list, had it handed out the map with every delta consumed: old := current.
list_ConsumingDeltas(ifs) ==
    [n \in DOMAIN ifs |->
        [ifs[n] EXCEPT !.old_in = ifs[n].current_in, !.old_out = ifs[n].current_out,
                       !.old_packets_in = ifs[n].packets_in,
                       !.old_packets_out = ifs[n].packets_out,
                       !.old_errors_in = ifs[n].errors_in,
                       !.old_errors_out = ifs[n].errors_out]]

\* list(&self) hands out &self.interfaces: the map as the call leaves it,
\* which is the map itself, since the borrow is immutable.
list(ifs) == ifs

\* What the fifteen accessors return on the record d.
Accessors(d) ==
    [received |-> received(d), total_received |-> total_received(d),
     transmitted |-> transmitted(d), total_transmitted |-> total_transmitted(d),
     packets_received |-> packets_received(d),
     total_packets_received |-> total_packets_received(d),
     packets_transmitted |-> packets_transmitted(d),
     total_packets_transmitted |-> total_packets_transmitted(d),
     errors_on_received |-> errors_on_received(d),
     total_errors_on_received |-> total_errors_on_received(d),
     errors_on_transmitted |-> errors_on_transmitted(d),
     total_errors_on_transmitted |-> total_errors_on_transmitted(d),
     mac_address |-> mac_address(d), ip_networks |-> ip_networks(d), mtu |-> mtu(d)]

(***************************************************************************)
(* The state: the registry, and what the calls of refresh so far did.      *)
(***************************************************************************)
VARIABLES
    interfaces,   \* NetworksInner.interfaces
    ncalls,       \* the number of calls of refresh so far
    acquired,     \* the number of tables GetIfTable2 has handed out
    freed,        \* the number of FreeMibTable calls
    addr_calls,   \* the number of refresh_networks_addresses calls
    last,         \* the last call of refresh: its inputs and what it did
    reads,        \* what each list() since the last call of refresh returned
    frozen        \* for each record of last.before: its counters when a
                  \* candidate last wrote it, and the successful refreshes since;
                  \* for a name removed earlier: the same, when it was removed

vars == <<interfaces, ncalls, acquired, freed, addr_calls, last, reads, frozen>>

NoCall ==
    [ran |-> FALSE, acq |-> [is_err |-> TRUE, table |-> <<>>], remove |-> FALSE,
     answer |-> 0, before |-> <<>>, reset |-> <<>>, upserted |-> <<>>,
     evicted |-> <<>>, addressed |-> <<>>, calls |-> <<>>]

\* NetworksInner::new()
Init ==
    /\ interfaces = <<>>
    /\ ncalls = 0
    /\ acquired = 0
    /\ freed = 0
    /\ addr_calls = 0
    /\ last = NoCall
    /\ reads = <<>>
    /\ frozen = <<>>

\* The names of `ifs` that the second loop wrote: their marker is set.
Written(ifs) == {n \in DOMAIN ifs : ifs[n].updated}

\* The history of the names the registry holds or has held, from the
\* history before the last call and from what the last call did: for a
\* record of `interfaces`, its six counters when a candidate last wrote it
\* and the number of successful refreshes since; for a name that retain
\* removed, the history it had then.
FrozenNow ==
    [n \in DOMAIN frozen \cup DOMAIN interfaces |->
        IF n \notin DOMAIN interfaces \/ ~last.ran \/ last.acq.is_err THEN frozen[n]
        ELSE IF n \in Written(last.upserted)
             THEN [at |-> [bytes_in |-> interfaces[n].current_in,
                           bytes_out |-> interfaces[n].current_out,
                           packets_in |-> interfaces[n].packets_in,
                           packets_out |-> interfaces[n].packets_out,
                           errors_in |-> interfaces[n].errors_in,
                           errors_out |-> interfaces[n].errors_out],
                   misses |-> 0]
        ELSE [frozen[n] EXCEPT !.misses = @ + 1]]

\* One call of refresh.
Call(acq, remove_not_listed_interfaces, answer) ==
    LET r == refresh(interfaces, acq, remove_not_listed_interfaces, answer)
    IN  /\ interfaces' = r.interfaces
        /\ ncalls' = ncalls + 1
        /\ acquired' = acquired + (IF acq.is_err THEN 0 ELSE 1)
        /\ freed' = freed + Count(r.calls, "FreeMibTable")
        /\ addr_calls' = addr_calls + Count(r.calls, "refresh_networks_addresses")
        /\ last' = [ran |-> TRUE, acq |-> acq, remove |-> remove_not_listed_interfaces,
                    answer |-> answer, before |-> interfaces, reset |-> r.reset,
                    upserted |-> r.upserted, evicted |-> r.evicted,
                    addressed |-> r.addressed, calls |-> r.calls]
        /\ reads' = <<>>
        /\ frozen' = FrozenNow

Refresh(acq, remove_not_listed_interfaces, answer) ==
    /\ ncalls < MaxCalls
    /\ Call(acq, remove_not_listed_interfaces, answer)

\* GetIfTable2 fails.
RefreshFailed ==
    \E remove \in BOOLEAN :
        Refresh([is_err |-> TRUE, table |-> <<>>], remove, 0)

\* GetIfTable2 hands out a table.
RefreshTable ==
    \E t \in Tables, remove \in BOOLEAN, answer \in AddrAnswers :
        Refresh([is_err |-> FALSE, table |-> t], remove, answer)

Next == RefreshFailed \/ RefreshTable

Spec == Init /\ [][Next]_vars

(***************************************************************************)
(* Longer behaviours over fewer tables, with reads between the calls: the  *)
(* rows are the candidates named "e", and the address collaborator finds   *)
(* MaxAddrs addresses.                                                     *)
(***************************************************************************)
\* The number of refresh calls of such a behaviour, and of reads between two.
MaxLongCalls == 3
MaxReads == 2

FewRows == {row \in Rows : row.Alias = AliasE /\ ~Discarded(row)}
FewTables == UNION {[1..n -> FewRows] : n \in 0..MaxEntries}

\* A caller calls list() and reads every accessor of every record.
List ==
    /\ Len(reads) < MaxReads
    /\ reads' = Append(reads, [n \in DOMAIN interfaces |-> Accessors(interfaces[n])])
    /\ interfaces' = list(interfaces)
    /\ UNCHANGED <<ncalls, acquired, freed, addr_calls, last, frozen>>

LongRefreshFailed ==
    /\ ncalls < MaxLongCalls
    /\ \E remove \in BOOLEAN : Call([is_err |-> TRUE, table |-> <<>>], remove, 0)

LongRefreshTable ==
    /\ ncalls < MaxLongCalls
    /\ \E t \in FewTables, remove \in BOOLEAN :
          Call([is_err |-> FALSE, table |-> t], remove, MaxAddrs)

NextLong == LongRefreshFailed \/ LongRefreshTable \/ List

SpecLong == Init /\ [][NextLong]_vars

(***************************************************************************)
(* What the specification says of a table, stated on the rows themselves.  *)
(***************************************************************************)
\* The last call of refresh acquired a table / failed to.
Succeeded == last.ran /\ ~last.acq.is_err
Failed == last.ran /\ last.acq.is_err

\* Candidate filtering: the row is not considered for upsert.
FilteredOut(row) ==
    \/ row.TransmitLinkSpeed + row.ReceiveLinkSpeed = 0
    \/ row.MediaConnectState = MediaConnectStateDisconnected
    \/ row.PhysicalAddressLength < 1

\* The hardware-group identifier of a row.
GroupOf(row) ==
    [short1 |-> row.InterfaceGuid.data2, short2 |-> row.InterfaceGuid.data3,
     bytes |-> row.InterfaceGuid.data4]

\* The rows of table t that survive filtering, and those in the group of row.
Survivors(t) == {i \in 1..Len(t) : ~FilteredOut(t[i])}
GroupSize(t, row) == Cardinality({i \in Survivors(t) : GroupOf(t[i]) = GroupOf(row)})

\* The rows that reach upsert: survivors, alone in their group, with an alias
\* that decodes; and those among them that decode to the name n.
Upserting(t) ==
    {i \in Survivors(t) : GroupSize(t, t[i]) = 1 /\ interface_name(t[i]).ok}
Named(t, n) == {i \in Upserting(t) : interface_name(t[i]).s = n}
UpsertedNames(t) == {interface_name(t[i]).s : i \in Upserting(t)}

\* The six cumulative values a row reports.
Min(a, b) == IF a < b THEN a ELSE b
Max(a, b) == IF a > b THEN a ELSE b
Observed(row) ==
    [bytes_in |-> row.InOctets, bytes_out |-> row.OutOctets,
     packets_in |-> Min(row.InUcastPkts + row.InNUcastPkts, U64Max),
     packets_out |-> Min(row.OutUcastPkts + row.OutNUcastPkts, U64Max),
     errors_in |-> row.InErrors, errors_out |-> row.OutErrors]

\* The current and the prev values of a record, and its six deltas.
Current(d) ==
    [bytes_in |-> d.current_in, bytes_out |-> d.current_out,
     packets_in |-> d.packets_in, packets_out |-> d.packets_out,
     errors_in |-> d.errors_in, errors_out |-> d.errors_out]
Prev(d) ==
    [bytes_in |-> d.old_in, bytes_out |-> d.old_out,
     packets_in |-> d.old_packets_in, packets_out |-> d.old_packets_out,
     errors_in |-> d.old_errors_in, errors_out |-> d.old_errors_out]
Deltas(d) ==
    [bytes_in |-> received(d), bytes_out |-> transmitted(d),
     packets_in |-> packets_received(d), packets_out |-> packets_transmitted(d),
     errors_in |-> errors_on_received(d), errors_out |-> errors_on_transmitted(d)]
Totals(d) ==
    [bytes_in |-> total_received(d), bytes_out |-> total_transmitted(d),
     packets_in |-> total_packets_received(d),
     packets_out |-> total_packets_transmitted(d),
     errors_in |-> total_errors_on_received(d),
     errors_out |-> total_errors_on_transmitted(d)]
CounterNames == DOMAIN Current(NewInterface(CHOOSE row \in Rows : TRUE))
Zero == [c \in CounterNames |-> 0]

(***************************************************************************)
(* C1.  When GetIfTable2 fails, refresh is a silent no-op for either value *)
(* of remove_stale: the registry after the call equals the registry before *)
(* it, record by record and field by field (the seen markers included), no *)
(* record is evicted, FreeMibTable is not called and neither is the        *)
(* address collaborator.                                                   *)
(***************************************************************************)
C1_FailedRefreshIsNoOp ==
    Failed =>
        /\ interfaces = last.before
        /\ Count(last.calls, "FreeMibTable") = 0
        /\ Count(last.calls, "refresh_networks_addresses") = 0

\* A failed refresh, of either flag, on a registry that holds a record whose
\* marker is set and whose addresses are resolved.
C1_Witness ==
    /\ Failed /\ last.remove
    /\ \E n \in DOMAIN last.before :
          last.before[n].updated /\ last.before[n].ip_networks # <<>>

\* The record d is the record `old` shifted to what `row` reports: prev is the
\* old current, current and total the observed value, delta their difference
\* or 0.
ShiftedTo(d, old, row) ==
    /\ Prev(d) = Current(old)
    /\ Current(d) = Observed(row)
    /\ Totals(d) = Observed(row)
    /\ Deltas(d) = [c \in CounterNames |-> Max(Observed(row)[c] - Current(old)[c], 0)]

(***************************************************************************)
(* C2, as claimed.  In a successful refresh, every record that existed     *)
(* before and is matched by a candidate has, for each of the six counters, *)
(* prev = the current value it held before the refresh and current = the   *)
(* value the candidate reports, so delta = max(new - old, 0).              *)
(***************************************************************************)
C2_AsClaimed ==
    Succeeded =>
        \A n \in DOMAIN last.before : \A i \in Named(last.acq.table, n) :
            /\ n \in DOMAIN interfaces
            /\ ShiftedTo(interfaces[n], last.before[n], last.acq.table[i])

(***************************************************************************)
(* C2, for a record that exactly one candidate of the table matches: prev  *)
(* is the current value before the refresh, current the observed value,    *)
(* delta = max(new - old, 0); with raw counters equal to the record's      *)
(* current values every delta is 0; and bytes_in 1000 then 1500 gives      *)
(* total_received 1500 and received 500.                                   *)
(***************************************************************************)
C2_MatchedOnceShifts ==
    Succeeded =>
        \A n \in DOMAIN last.before : \A i \in Named(last.acq.table, n) :
            Cardinality(Named(last.acq.table, n)) = 1 =>
                /\ n \in DOMAIN interfaces
                /\ ShiftedTo(interfaces[n], last.before[n], last.acq.table[i])
                /\ Observed(last.acq.table[i]) = Current(last.before[n])
                      => Deltas(interfaces[n]) = Zero
                /\ (last.before[n].current_in = 1000 /\ last.acq.table[i].InOctets = 1500)
                      => /\ total_received(interfaces[n]) = 1500
                         /\ received(interfaces[n]) = 500

\* A record with bytes_in 1000 is matched by one candidate that reports 1500.
C2_Witness ==
    /\ Succeeded
    /\ \E n \in DOMAIN last.before :
          /\ Cardinality(Named(last.acq.table, n)) = 1
          /\ last.before[n].current_in = 1000
          /\ received(interfaces[n]) = 500

(***************************************************************************)
(* C3, as claimed.  After a successful refresh, every record whose name    *)
(* was not in the registry before the refresh has all six deltas 0.        *)
(***************************************************************************)
C3_AsClaimed ==
    Succeeded =>
        \A n \in DOMAIN interfaces \ DOMAIN last.before : Deltas(interfaces[n]) = Zero

(***************************************************************************)
(* C3, for a name to which exactly one candidate of the table decodes: a   *)
(* record whose name was not in the registry before a successful refresh   *)
(* has all six deltas 0 after it, with current and prev both equal to the  *)
(* values that candidate reports.                                          *)
(***************************************************************************)
C3_FirstObservationDeltaZero ==
    Succeeded =>
        \A n \in DOMAIN interfaces \ DOMAIN last.before :
            \A i \in Named(last.acq.table, n) :
                Cardinality(Named(last.acq.table, n)) = 1 =>
                    /\ Deltas(interfaces[n]) = Zero
                    /\ Current(interfaces[n]) = Observed(last.acq.table[i])
                    /\ Prev(interfaces[n]) = Observed(last.acq.table[i])

\* A record is created from the one candidate of its name, with totals that
\* are not zero.
C3_Witness ==
    /\ Succeeded
    /\ \E n \in DOMAIN interfaces \ DOMAIN last.before :
          /\ Cardinality(Named(last.acq.table, n)) = 1
          /\ total_received(interfaces[n]) > 0

(***************************************************************************)
(* C4.  After any sequence of refreshes, every delta accessor of every     *)
(* record returns current - prev when current >= prev and 0 when           *)
(* current < prev; the result is a u64 no larger than current, never a     *)
(* value wrapped around modulo 2^64.                                       *)
(***************************************************************************)
C4_DeltaSaturates ==
    \A n \in DOMAIN interfaces : \A c \in CounterNames :
        LET cur == Current(interfaces[n])[c]
            prev == Prev(interfaces[n])[c]
            delta == Deltas(interfaces[n])[c]
        IN  /\ cur >= prev => delta + prev = cur
            /\ cur < prev => delta = 0
            /\ delta \in 0..cur

\* A record whose counter fell between two refreshes (current < prev) beside
\* one that grew.
C4_Witness ==
    \E n \in DOMAIN interfaces :
        /\ interfaces[n].current_out < interfaces[n].old_out
        /\ transmitted(interfaces[n]) = 0
        /\ interfaces[n].current_in > interfaces[n].old_in
        /\ received(interfaces[n]) > 0

(***************************************************************************)
(* The refresh of the last call, had GetIfTable2 handed out the table t    *)
(* instead: the registry it would have left.                               *)
(***************************************************************************)
LastRefreshOn(t) ==
    refresh(last.before, [is_err |-> FALSE, table |-> t], last.remove, last.answer).interfaces

\* The record as the reset phase leaves it, and no step after it touches it.
Untouched(n) == last.upserted[n] = [last.before[n] EXCEPT !.updated = FALSE]

(***************************************************************************)
(* C5.  In a successful refresh, among the rows that pass filtering, every *)
(* row whose group identifier occurs more than once is excluded from       *)
(* upsert, the first one scanned included: the refresh leaves the registry *)
(* it would leave had the table not held these rows, and a name only such  *)
(* rows decode to is neither created nor updated.  Every row whose group   *)
(* identifier occurs once and whose alias decodes is upserted.             *)
(***************************************************************************)
C5_DuplicateGroupsExcluded ==
    Succeeded =>
        LET t == last.acq.table
            Shadowed(row) == ~FilteredOut(row) /\ GroupSize(t, row) >= 2
            Kept(row) == ~Shadowed(row)
        IN  /\ interfaces = LastRefreshOn(SelectSeq(t, Kept))
            /\ \A i \in 1..Len(t) :
                  LET name == interface_name(t[i])
                  IN  /\ (Shadowed(t[i]) /\ name.ok /\ Named(t, name.s) = {}) =>
                            IF name.s \in DOMAIN last.before THEN Untouched(name.s)
                            ELSE name.s \notin DOMAIN interfaces
                      /\ i \in Upserting(t) =>
                            /\ name.s \in DOMAIN interfaces
                            /\ last.upserted[name.s].updated

\* Two rows of one group, both fit for upsert otherwise: the name of the first
\* one scanned is not in the registry afterwards.
C5_Witness ==
    /\ Succeeded
    /\ \E i, j \in Survivors(last.acq.table) :
          /\ i < j
          /\ GroupOf(last.acq.table[i]) = GroupOf(last.acq.table[j])
          /\ interface_name(last.acq.table[i]).ok
          /\ interface_name(last.acq.table[i]).s \notin DOMAIN interfaces

(***************************************************************************)
(* C6, as claimed.  A candidate with zero physical address length is never *)
(* present in the registry after a refresh, whatever its link speeds and   *)
(* connection state: after a successful refresh the registry holds no      *)
(* record under the name of such a row.                                    *)
(***************************************************************************)
C6_AsClaimed ==
    Succeeded =>
        \A i \in 1..Len(last.acq.table) :
            (last.acq.table[i].PhysicalAddressLength = 0 /\ interface_name(last.acq.table[i]).ok)
                => interface_name(last.acq.table[i]).s \notin DOMAIN interfaces

(***************************************************************************)
(* C6, amended.  A row with both link speeds zero, or in the disconnected  *)
(* media state, or with zero physical address length (whatever its speeds  *)
(* and state) never creates a record and never updates the counters, mtu   *)
(* or seen marker of a record: the refresh leaves the registry it would    *)
(* leave had the table not held the row.  The name of such a row is not in *)
(* the registry afterwards, unless a candidate that reaches upsert decodes *)
(* to the same name, or a record of that name was there before and         *)
(* remove_stale is false: that record stays as it was.                     *)
(***************************************************************************)
C6_FilteredRowsContributeNothing ==
    Succeeded =>
        LET t == last.acq.table
            Passes(row) == ~FilteredOut(row)
        IN  /\ interfaces = LastRefreshOn(SelectSeq(t, Passes))
            /\ \A i \in 1..Len(t) :
                  LET name == interface_name(t[i])
                  IN  (FilteredOut(t[i]) /\ name.ok /\ Named(t, name.s) = {}) =>
                          IF name.s \in DOMAIN last.before /\ ~last.remove
                          THEN /\ Untouched(name.s)
                               /\ Current(interfaces[name.s]) = Current(last.before[name.s])
                               /\ Prev(interfaces[name.s]) = Prev(last.before[name.s])
                               /\ mtu(interfaces[name.s]) = mtu(last.before[name.s])
                          ELSE name.s \notin DOMAIN interfaces

\* A row whose only fault is a zero physical address length, under the name
\* of a record that the refresh before had matched: refresh(false) leaves the
\* record, and creates another from a candidate.
C6_Witness ==
    /\ Succeeded /\ ~last.remove
    /\ DOMAIN interfaces # DOMAIN last.before
    /\ \E i \in 1..Len(last.acq.table) :
          LET row == last.acq.table[i]
          IN  /\ row.PhysicalAddressLength = 0
              /\ row.TransmitLinkSpeed > 0 /\ row.ReceiveLinkSpeed > 0
              /\ row.MediaConnectState = MediaConnectStateConnected
              /\ interface_name(row).s \in DOMAIN last.before
              /\ last.before[interface_name(row).s].updated
              /\ ~last.upserted[interface_name(row).s].updated

(***************************************************************************)
(* C7.  After any history of refreshes, a successful refresh with          *)
(* remove_stale = true leaves exactly the names that a candidate matched   *)
(* or created in this refresh: a record that is not matched is gone, even  *)
(* if an earlier refresh(false) left its seen marker set, and a refresh    *)
(* that observes no candidate empties the registry.                        *)
(***************************************************************************)
C7_RemoveStaleKeepsExactlyTheSeen ==
    (Succeeded /\ last.remove) =>
        /\ DOMAIN interfaces = UpsertedNames(last.acq.table)
        /\ Upserting(last.acq.table) = {} => interfaces = <<>>

\* A record whose marker an earlier refresh(false) left set is not matched,
\* and is gone.
C7_Witness ==
    /\ Succeeded /\ last.remove
    /\ \E n \in DOMAIN last.before :
          last.before[n].updated /\ n \notin DOMAIN interfaces

(***************************************************************************)
(* C8.  With remove_stale = false, a record that no candidate matches in a *)
(* successful refresh stays in the registry with the current and prev      *)
(* values of its six counters and its mtu unchanged, hence the same totals *)
(* and deltas; and refresh(false) never shrinks the set of names.          *)
(***************************************************************************)
C8_KeepStaleFreezesRecord ==
    (Succeeded /\ ~last.remove) =>
        /\ DOMAIN last.before \subseteq DOMAIN interfaces
        /\ \A n \in DOMAIN last.before :
              Named(last.acq.table, n) = {} =>
                  /\ Current(interfaces[n]) = Current(last.before[n])
                  /\ Prev(interfaces[n]) = Prev(last.before[n])
                  /\ mtu(interfaces[n]) = mtu(last.before[n])
                  /\ Totals(interfaces[n]) = Totals(last.before[n])
                  /\ Deltas(interfaces[n]) = Deltas(last.before[n])

\* A record with counters is not matched by a refresh(false) of a table that
\* creates another record.
C8_Witness ==
    /\ Succeeded /\ ~last.remove
    /\ \E n \in DOMAIN last.before :
          /\ Named(last.acq.table, n) = {}
          /\ total_received(last.before[n]) > 0
          /\ DOMAIN interfaces # DOMAIN last.before

(***************************************************************************)
(* C9.  The table is released exactly once per successful acquisition and  *)
(* never after a failed one: when a call of refresh returns, the number of *)
(* FreeMibTable calls equals the number of successful GetIfTable2 calls,   *)
(* also when every row is filtered out, in a duplicate group or has an     *)
(* alias that does not decode; and the release follows the acquisition.    *)
(***************************************************************************)
C9_ReleasedOncePerAcquisition ==
    /\ freed = acquired
    /\ last.ran =>
          /\ Count(last.calls, "FreeMibTable") = (IF last.acq.is_err THEN 0 ELSE 1)
          /\ Count(last.calls, "GetIfTable2") = 1
          /\ last.calls[1] = "GetIfTable2"

\* After a failed call, a call whose table has rows, none of which reaches
\* upsert, one of them for its alias.
C9_Witness ==
    /\ Succeeded /\ ncalls = 2 /\ acquired = 1 /\ freed = 1
    /\ Len(last.acq.table) > 0 /\ Upserting(last.acq.table) = {}
    /\ \E i \in Survivors(last.acq.table) : ~interface_name(last.acq.table[i]).ok

\* The upserts of the rows of t that reach upsert, from row i on, one by one
\* in the table's order.
RECURSIVE UpsertEach(_, _, _)
UpsertEach(ifs, t, i) ==
    IF i > Len(t) THEN ifs
    ELSE IF i \in Upserting(t)
         THEN UpsertEach(Upsert(ifs, interface_name(t[i]).s, t[i]), t, i + 1)
    ELSE UpsertEach(ifs, t, i + 1)

(***************************************************************************)
(* C10.  A candidate whose alias does not decode is skipped alone: it      *)
(* creates no record and changes none, every other candidate is upserted   *)
(* as if that one were not a candidate for upsert (upsert by upsert, in    *)
(* the table's order), and the refresh still releases the table, evicts    *)
(* when asked to and calls the address collaborator.                       *)
(***************************************************************************)
C10_UndecodableSkippedAlone ==
    Succeeded =>
        /\ last.upserted = UpsertEach(last.reset, last.acq.table, 1)
        /\ DOMAIN last.upserted = DOMAIN last.before \cup UpsertedNames(last.acq.table)
        /\ last.calls = <<"GetIfTable2", "FreeMibTable", "refresh_networks_addresses">>
        /\ last.remove => DOMAIN interfaces = {n \in DOMAIN last.upserted : last.upserted[n].updated}
        /\ \A n \in DOMAIN interfaces :
              /\ Current(interfaces[n]) = Current(last.upserted[n])
              /\ Prev(interfaces[n]) = Prev(last.upserted[n])

\* A candidate whose alias does not decode, before a candidate that updates a
\* record, in a refresh that evicts another record.
C10_Witness ==
    /\ Succeeded /\ last.remove
    /\ \E i, j \in Survivors(last.acq.table) :
          /\ i < j
          /\ GroupSize(last.acq.table, last.acq.table[i]) = 1
          /\ ~interface_name(last.acq.table[i]).ok
          /\ j \in Upserting(last.acq.table)
          /\ interface_name(last.acq.table[j]).s \in DOMAIN last.before
    /\ DOMAIN last.before \ DOMAIN interfaces # {}

(***************************************************************************)
(* C11.  list() and the accessors are read-only: after any number of reads *)
(* since the last call of refresh, the registry is still the one that call *)
(* left, every read returned the same values, each total is the stored     *)
(* current value, and each delta is the stored current minus the stored    *)
(* prev, or 0 when that is negative.                                       *)
(***************************************************************************)
C11_ReadsChangeNothing ==
    /\ last.ran =>
          interfaces = refresh(last.before, last.acq, last.remove, last.answer).interfaces
    /\ \A k \in 1..Len(reads) :
          /\ reads[k] = reads[1]
          /\ DOMAIN reads[k] = DOMAIN interfaces
          /\ \A n \in DOMAIN interfaces :
                LET d == interfaces[n]
                    got == reads[k][n]
                IN  /\ got.total_received = d.current_in
                    /\ got.total_transmitted = d.current_out
                    /\ got.total_packets_received = d.packets_in
                    /\ got.total_packets_transmitted = d.packets_out
                    /\ got.total_errors_on_received = d.errors_in
                    /\ got.total_errors_on_transmitted = d.errors_out
                    /\ got.received = Max(d.current_in - d.old_in, 0)
                    /\ got.transmitted = Max(d.current_out - d.old_out, 0)
                    /\ got.packets_received = Max(d.packets_in - d.old_packets_in, 0)
                    /\ got.packets_transmitted = Max(d.packets_out - d.old_packets_out, 0)
                    /\ got.errors_on_received = Max(d.errors_in - d.old_errors_in, 0)
                    /\ got.errors_on_transmitted = Max(d.errors_out - d.old_errors_out, 0)
                    /\ got.mac_address = d.mac_addr
                    /\ got.ip_networks = d.ip_networks
                    /\ got.mtu = d.mtu

\* Two reads after the second refresh, of a record with a delta that is not 0,
\* a counter that fell and addresses.
C11_Witness ==
    /\ Len(reads) = MaxReads /\ ncalls >= 2
    /\ \E n \in DOMAIN interfaces :
          /\ reads[2][n].received > 0
          /\ interfaces[n].current_out < interfaces[n].old_out
          /\ reads[2][n].ip_networks # <<>>

(***************************************************************************)
(* C12.  A successful refresh runs its phases in the order reset, upsert,  *)
(* release, eviction (when remove_stale), address population.  The address *)
(* collaborator is called once per successful refresh, after FreeMibTable  *)
(* and after eviction: it is handed the records that survived eviction and *)
(* none of the records this refresh removes.                               *)
(***************************************************************************)
C12_AddressesLastOnSurvivors ==
    /\ addr_calls = acquired
    /\ Succeeded =>
          /\ last.calls = <<"GetIfTable2", "FreeMibTable", "refresh_networks_addresses">>
          /\ last.reset = [n \in DOMAIN last.before |->
                              [last.before[n] EXCEPT !.updated = FALSE]]
          /\ DOMAIN last.upserted = DOMAIN last.reset \cup UpsertedNames(last.acq.table)
          /\ last.evicted =
                IF last.remove
                THEN [n \in UpsertedNames(last.acq.table) |->
                         [last.upserted[n] EXCEPT !.updated = FALSE]]
                ELSE last.upserted
          /\ last.addressed = last.evicted
          /\ DOMAIN last.addressed = DOMAIN interfaces
          /\ (DOMAIN last.before \ DOMAIN interfaces) \cap DOMAIN last.addressed = {}
          /\ \A n \in DOMAIN interfaces :
                [interfaces[n] EXCEPT !.mac_addr = last.addressed[n].mac_addr,
                                      !.ip_networks = last.addressed[n].ip_networks]
                   = last.addressed[n]

\* A refresh(true) removes a record that had addresses, and the collaborator
\* finds addresses for the record that stays.
C12_Witness ==
    /\ Succeeded /\ last.remove /\ last.answer > 0
    /\ DOMAIN interfaces # {}
    /\ \E n \in DOMAIN last.before \ DOMAIN interfaces :
          last.before[n].ip_networks # <<>>

(***************************************************************************)
(* C13.  Group counts are taken over the rows that pass filtering only: a  *)
(* surviving row whose group identifier is shared only with rows that the  *)
(* filter discards (zero speeds, disconnected, or zero physical address    *)
(* length) has group count 1 and, its alias decoding, is upserted.         *)
(***************************************************************************)
C13_GroupsCountSurvivorsOnly ==
    Succeeded =>
        LET t == last.acq.table
            groups == FirstPass(t, 1, <<>>, <<>>).groups
        IN  /\ DOMAIN groups = {GroupId(t[i]) : i \in Survivors(t)}
            /\ \A i \in Survivors(t) :
                  /\ groups[GroupId(t[i])] = GroupSize(t, t[i])
                  /\ (\A j \in 1..Len(t) :
                         (j # i /\ GroupOf(t[j]) = GroupOf(t[i])) => FilteredOut(t[j]))
                     => /\ groups[GroupId(t[i])] = 1
                        /\ interface_name(t[i]).ok =>
                              LET n == interface_name(t[i]).s
                              IN  /\ n \in DOMAIN last.upserted
                                  /\ last.upserted[n].updated
                                  /\ Named(t, n) = {i} =>
                                        /\ Current(last.upserted[n]) = Observed(t[i])
                                        /\ last.upserted[n].mtu = t[i].Mtu

\* A discarded row comes before a surviving row of the same group, whose name
\* is new: the record is created.
C13_Witness ==
    /\ Succeeded
    /\ \E i \in Survivors(last.acq.table) : \E j \in 1..Len(last.acq.table) :
          /\ j < i
          /\ FilteredOut(last.acq.table[j])
          /\ GroupOf(last.acq.table[j]) = GroupOf(last.acq.table[i])
          /\ interface_name(last.acq.table[i]).ok
          /\ interface_name(last.acq.table[i]).s \in DOMAIN interfaces \ DOMAIN last.before

\* The last row of t, in the table's order, that is upserted under the name n.
LastNamed(t, n) == CHOOSE i \in Named(t, n) : \A j \in Named(t, n) : j <= i

\* The records d and e have the same MAC address and the same IP networks.
SameAddresses(d, e) == d.mac_addr = e.mac_addr /\ d.ip_networks = e.ip_networks

(***************************************************************************)
(* C14.  Upserting a record that exists sets its mtu to the candidate's    *)
(* mtu and its seen marker, and leaves its MAC address and its IP networks *)
(* as they were; no step of refresh before the call of the address         *)
(* collaborator changes the MAC address or the IP networks of a record     *)
(* that existed before the refresh.                                        *)
(***************************************************************************)
C14_UpsertKeepsAddresses ==
    Succeeded =>
        \A n \in DOMAIN last.before :
            /\ SameAddresses(last.reset[n], last.before[n])
            /\ SameAddresses(last.upserted[n], last.before[n])
            /\ n \in DOMAIN last.evicted => SameAddresses(last.evicted[n], last.before[n])
            /\ n \in DOMAIN last.addressed => SameAddresses(last.addressed[n], last.before[n])
            /\ Named(last.acq.table, n) # {} =>
                  /\ last.upserted[n].mtu = last.acq.table[LastNamed(last.acq.table, n)].Mtu
                  /\ last.upserted[n].updated
            /\ \A i \in Upserting(last.acq.table) :
                  LET d == UpdateInterface(last.reset[n], last.acq.table[i])
                  IN  /\ d.mtu = last.acq.table[i].Mtu
                      /\ d.updated
                      /\ SameAddresses(d, last.before[n])

\* A record with addresses is matched by a candidate that reports another mtu,
\* in a refresh whose address collaborator then finds no address.
C14_Witness ==
    /\ Succeeded /\ last.answer = 0
    /\ \E n \in DOMAIN last.before :
          /\ Named(last.acq.table, n) # {}
          /\ last.before[n].ip_networks # <<>>
          /\ last.before[n].mac_addr # MacAddrUNSPECIFIED
          /\ last.upserted[n].mtu # last.before[n].mtu
          /\ n \in DOMAIN interfaces
          /\ interfaces[n].ip_networks = <<>>

(***************************************************************************)
(* C15, as claimed.  After every successful refresh has returned, with     *)
(* either value of remove_stale, every record of the registry has          *)
(* seen = false.                                                           *)
(***************************************************************************)
C15_AsClaimed ==
    Succeeded => \A n \in DOMAIN interfaces : ~interfaces[n].updated

(***************************************************************************)
(* C15, amended.  Every successful refresh resets every seen marker before *)
(* it classifies, and sets the marker of the records a candidate matches   *)
(* or creates, and of no other.  After a successful refresh with           *)
(* remove_stale = true every record has seen = false; after one with       *)
(* remove_stale = false a record has seen = true exactly if a candidate    *)
(* matched or created it in that refresh.                                  *)
(***************************************************************************)
C15_SeenAfterRefresh ==
    Succeeded =>
        /\ \A n \in DOMAIN last.reset : ~last.reset[n].updated
        /\ \A n \in DOMAIN last.upserted :
              last.upserted[n].updated <=> n \in UpsertedNames(last.acq.table)
        /\ last.remove => \A n \in DOMAIN interfaces : ~interfaces[n].updated
        /\ ~last.remove =>
              \A n \in DOMAIN interfaces :
                  interfaces[n].updated <=> n \in UpsertedNames(last.acq.table)

\* A refresh(false) returns with the marker of the record it matched set, and
\* with the marker that an earlier refresh(false) had left on another record
\* reset.
C15_Witness ==
    /\ Succeeded /\ ~last.remove
    /\ \E n \in DOMAIN interfaces : interfaces[n].updated
    /\ \E m \in DOMAIN last.before : last.before[m].updated /\ ~interfaces[m].updated

(***************************************************************************)
(* C16.  The stored packet counters are the saturating sums of the unicast *)
(* and non-unicast counts of the entry: packets_in is the smaller of       *)
(* InUcastPkts + InNUcastPkts and the largest u64, packets_out likewise,   *)
(* never the sum modulo 2^64; and the create path and the update path      *)
(* compute the same value from the same entry.                             *)
(***************************************************************************)
C16_PacketsSaturatingSum ==
    Succeeded =>
        LET t == last.acq.table
            SumIn(row) == Min(row.InUcastPkts + row.InNUcastPkts, U64Max)
            SumOut(row) == Min(row.OutUcastPkts + row.OutNUcastPkts, U64Max)
        IN  /\ \A n \in UpsertedNames(t) :
                  /\ last.upserted[n].packets_in = SumIn(t[LastNamed(t, n)])
                  /\ last.upserted[n].packets_out = SumOut(t[LastNamed(t, n)])
                  /\ interfaces[n].packets_in = SumIn(t[LastNamed(t, n)])
                  /\ interfaces[n].packets_out = SumOut(t[LastNamed(t, n)])
            /\ \A i \in Upserting(t) :
                  /\ NewInterface(t[i]).packets_in = SumIn(t[i])
                  /\ NewInterface(t[i]).packets_out = SumOut(t[i])
                  /\ \A n \in DOMAIN last.reset :
                        /\ UpdateInterface(last.reset[n], t[i]).packets_in = SumIn(t[i])
                        /\ UpdateInterface(last.reset[n], t[i]).packets_out = SumOut(t[i])

\* A record is updated from an entry whose incoming counts sum to more than
\* the largest u64, beside a record that is created.
C16_Witness ==
    /\ Succeeded
    /\ \E n \in DOMAIN last.before :
          /\ Named(last.acq.table, n) # {}
          /\ LET row == last.acq.table[LastNamed(last.acq.table, n)]
             IN  /\ row.InUcastPkts + row.InNUcastPkts > U64Max
                 /\ (row.InUcastPkts + row.InNUcastPkts) % (U64Max + 1) < U64Max
          /\ interfaces[n].packets_in = U64Max
          /\ last.before[n].packets_in < U64Max
    /\ \E m \in DOMAIN interfaces \ DOMAIN last.before : interfaces[m].packets_in > 0

\* The permutations of 1..n, and the table t with its rows in the order p.
Orders(n) == {p \in [1..n -> 1..n] : \A i, j \in 1..n : p[i] = p[j] => i = j}
Permuted(t, p) == [i \in 1..Len(t) |-> t[p[i]]]

\* The rows of t that reach upsert decode to pairwise distinct names.
DistinctNames(t) ==
    \A i, j \in Upserting(t) : interface_name(t[i]).s = interface_name(t[j]).s => i = j

(***************************************************************************)
(* C17.  When the candidates that reach upsert decode to pairwise distinct *)
(* names, what a successful refresh does is the same for every order of    *)
(* the rows of the table: from the same registry and with the same         *)
(* remove_stale, every permutation of the table leaves the same mapping of *)
(* names to records; and each record is written by one candidate at most.  *)
(***************************************************************************)
C17_OrderOfRowsIrrelevant ==
    (Succeeded /\ DistinctNames(last.acq.table)) =>
        LET t == last.acq.table
        IN  /\ \A p \in Orders(Len(t)) :
                  LET r == refresh(last.before, [is_err |-> FALSE, table |-> Permuted(t, p)],
                                   last.remove, last.answer)
                  IN  /\ r.interfaces = interfaces
                      /\ r.upserted = last.upserted
                      /\ r.addressed = last.addressed
            /\ \A i \in Upserting(t) :
                  LET n == interface_name(t[i]).s
                  IN  last.upserted[n] =
                         IF n \in DOMAIN last.before
                         THEN UpdateInterface(last.reset[n], t[i])
                         ELSE NewInterface(t[i])

\* A table of two different rows, both upserted, one into a record that
\* exists and one into a new one.
C17_Witness ==
    /\ Succeeded /\ DistinctNames(last.acq.table)
    /\ Len(last.acq.table) = 2
    /\ Upserting(last.acq.table) = {1, 2}
    /\ interface_name(last.acq.table[1]).s \in DOMAIN last.before
    /\ interface_name(last.acq.table[2]).s \notin DOMAIN last.before
    /\ Current(interfaces[interface_name(last.acq.table[1]).s])
          # Current(last.before[interface_name(last.acq.table[1]).s])

\* The record of the name n was in the registry before the last call, and
\* one successful refresh or more had not matched it since a candidate last
\* wrote it.
Absent(n) == n \in DOMAIN last.before /\ frozen[n].misses >= 1

\* The name n was removed by a refresh(true) before the last call, and was not
\* in the registry when the last call began.
Removed(n) == n \in DOMAIN frozen \ DOMAIN last.before

(***************************************************************************)
(* C18, as claimed.  Under remove_stale = false, a record that one or more *)
(* successful refreshes did not match and that a later refresh matches has *)
(* as prev the current value of its last match, so that its delta is       *)
(* max(new value - last value observed before it disappeared, 0); under    *)
(* remove_stale = true the interface was removed, and is created again     *)
(* with every delta 0.                                                     *)
(***************************************************************************)
C18_AsClaimed ==
    Succeeded =>
        LET t == last.acq.table
        IN  /\ \A n \in DOMAIN last.before : \A i \in Named(t, n) :
                  Absent(n) =>
                      /\ Prev(interfaces[n]) = frozen[n].at
                      /\ Deltas(interfaces[n]) =
                            [c \in CounterNames |->
                                Max(Observed(t[i])[c] - frozen[n].at[c], 0)]
            /\ \A n \in DOMAIN interfaces :
                  Removed(n) => Deltas(interfaces[n]) = Zero

(***************************************************************************)
(* C18, for a name that exactly one candidate of the table decodes to: the *)
(* record that reappears has as prev the current value of its last match,  *)
(* which is the value it held before this refresh, and the delta           *)
(* max(new - that value, 0); the name that a refresh(true) had removed is  *)
(* created with current = prev = the observed value and every delta 0.     *)
(***************************************************************************)
C18_ReappearsOnceFromFrozen ==
    Succeeded =>
        LET t == last.acq.table
        IN  /\ \A n \in DOMAIN last.before :
                  /\ frozen[n].at = Current(last.before[n])
                  /\ \A i \in Named(t, n) :
                        (Absent(n) /\ Cardinality(Named(t, n)) = 1) =>
                            /\ Prev(interfaces[n]) = frozen[n].at
                            /\ Current(interfaces[n]) = Observed(t[i])
                            /\ Deltas(interfaces[n]) =
                                  [c \in CounterNames |->
                                      Max(Observed(t[i])[c] - frozen[n].at[c], 0)]
            /\ \A n \in DOMAIN interfaces : \A i \in Named(t, n) :
                  (Removed(n) /\ Cardinality(Named(t, n)) = 1) =>
                      /\ Deltas(interfaces[n]) = Zero
                      /\ Current(interfaces[n]) = Observed(t[i])
                      /\ Prev(interfaces[n]) = Observed(t[i])

\* A record that a refresh(false) did not match is matched, in the refresh
\* after it, by one candidate with a larger bytes_in.
C18_Witness ==
    /\ Succeeded /\ ~last.remove
    /\ \E n \in DOMAIN last.before :
          /\ frozen[n].misses >= 1
          /\ Cardinality(Named(last.acq.table, n)) = 1
          /\ received(interfaces[n]) > 0
          /\ interfaces[n].old_in = frozen[n].at.bytes_in

=============================================================================
